---- MODULE Spec2Model ----
(***************************************************************************)
(* LinearSimilarity (allennlp/modules/similarity_functions/linear.py).     *)
(*                                                                         *)
(* A string is a sequence of one-character strings, so that split(','),    *)
(* len(), and indexing act on it as they do in Python.  A tensor is a      *)
(* record [shape, data] with data in row-major order; its elements are     *)
(* exact rationals <<numerator, denominator>>.  A call either returns      *)
(* (Ok) or raises (Raise).                                                 *)
(***************************************************************************)
EXTENDS Integers, Sequences, FiniteSets, TLC

VARIABLES
    self,              \* the LinearSimilarity object, or Nil before/without construction
    init_args,         \* the arguments __init__ was called with, or Nil
    call,              \* the most recent call: its name and arguments
    outcome,           \* what that call did: Ok(value) or Raise(exception, message)
    combined_tensors,  \* forward's local combined_tensors (line 60) of the most recent forward
    params             \* the Params object handed to from_params, as from_params left it

vars == <<self, init_args, call, outcome, combined_tensors, params>>

Nil == [nil |-> TRUE]

\* ------------------------------------------------------------------ bounds
MaxTokens == 2      \* comma-separated expressions in a combination string
MaxDim == 2         \* tensor_1_dim, tensor_2_dim range over 1..MaxDim
MaxBatch == 2       \* every leading axis of an input tensor has size 1..MaxBatch

\* ------------------------------------------------------------------ outcomes
Ok(v) == [kind |-> "return", val |-> v]

Raise(e, m) == [kind |-> "raise", exc |-> e, msg |-> m]

IsRaise(o) == o.kind = "raise"

ConfigurationError == "ConfigurationError"

RuntimeError == "RuntimeError"

Raises(o, e) == o.kind = "raise" /\ o.exc = e

\* ------------------------------------------------------------------ strings
\* str.split(','): the pieces between the commas, empty pieces kept; never an empty list.
RECURSIVE Split(_)
Split(s) ==
    IF \A i \in 1..Len(s) : s[i] # ","
    THEN <<s>>
    ELSE LET i == CHOOSE k \in 1..Len(s) :
                      s[k] = "," /\ \A j \in 1..(k - 1) : s[j] # ","
         IN  <<SubSeq(s, 1, i - 1)>> \o Split(SubSeq(s, i + 1, Len(s)))

\* ------------------------------------------------------------------ dimension evaluation
\* _get_combination_dim without the comparison of line 127.
_get_combination_dim_unchecked(combination, tensor_1_dim, tensor_2_dim) ==
    IF combination = <<"x">> THEN Ok(tensor_1_dim)
    ELSE IF combination = <<"y">> THEN Ok(tensor_2_dim)
    ELSE IF Len(combination) # 3
            \/ combination[1] \notin {"x", "y"} \/ combination[3] \notin {"x", "y"}
         THEN Raise(ConfigurationError, "Invalid combination")
    ELSE Ok(IF combination[1] = "x" THEN tensor_1_dim ELSE tensor_2_dim)

\* _get_combination_dim, lines 116-129.  The operator character is read (line 126)
\* but only used in the message of line 128.
RECURSIVE _get_combination_dim(_, _, _)
_get_combination_dim(combination, tensor_1_dim, tensor_2_dim) ==
    IF combination = <<"x">> THEN Ok(tensor_1_dim)
    ELSE IF combination = <<"y">> THEN Ok(tensor_2_dim)
    ELSE IF Len(combination) # 3
         THEN Raise(ConfigurationError, "Invalid combination")
    ELSE LET first_tensor_dim ==
                 _get_combination_dim(<<combination[1]>>, tensor_1_dim, tensor_2_dim)
         IN  IF IsRaise(first_tensor_dim) THEN first_tensor_dim
             ELSE LET second_tensor_dim ==
                          _get_combination_dim(<<combination[3]>>, tensor_1_dim, tensor_2_dim)
                  IN  IF IsRaise(second_tensor_dim) THEN second_tensor_dim
                      ELSE IF first_tensor_dim.val # second_tensor_dim.val
                           THEN Raise(ConfigurationError, "Tensor dims must match")
                      ELSE Ok(first_tensor_dim.val)

\* _get_combined_dim, lines 111-114: the list comprehension evaluates the expressions
\* in order, so the first one that raises decides; otherwise the sum.
RECURSIVE _get_combined_dim_from(_, _, _, _, _)
_get_combined_dim_from(combinations, i, acc, tensor_1_dim, tensor_2_dim) ==
    IF i > Len(combinations) THEN Ok(acc)
    ELSE LET d == _get_combination_dim(combinations[i], tensor_1_dim, tensor_2_dim)
         IN  IF IsRaise(d) THEN d
             ELSE _get_combined_dim_from(combinations, i + 1, acc + d.val,
                                     tensor_1_dim, tensor_2_dim)

\* _get_combined_dim summing from the second expression on.
_get_combined_dim_skip_first(combinations, tensor_1_dim, tensor_2_dim) ==
    _get_combined_dim_from(combinations, 2, 0, tensor_1_dim, tensor_2_dim)

_get_combined_dim(combinations, tensor_1_dim, tensor_2_dim) ==
    _get_combined_dim_from(combinations, 1, 0, tensor_1_dim, tensor_2_dim)

\* ------------------------------------------------------------------ numbers
\* Tensor elements are exact rationals <<n, d>> with d > 0 in lowest terms.  The
\* inputs of the model are non-zero, and a divisor is always an input ('x' or 'y'),
\* so no division by zero arises.
RECURSIVE Gcd(_, _)
Gcd(a, b) == IF b = 0 THEN a ELSE Gcd(b, a % b)

Abs(n) == IF n < 0 THEN -n ELSE n

Rat(n, d) ==
    LET s == IF d < 0 THEN -1 ELSE 1
        g == Gcd(Abs(n), Abs(d))
    IN  <<(s * n) \div g, (s * d) \div g>>

Num(n) == <<n, 1>>

RMul(a, b) == Rat(a[1] * b[1], a[2] * b[2])

RDiv(a, b) == Rat(a[1] * b[2], a[2] * b[1])

RAdd(a, b) == Rat(a[1] * b[2] + b[1] * a[2], a[2] * b[2])

RSub(a, b) == Rat(a[1] * b[2] - b[1] * a[2], a[2] * b[2])

RECURSIVE SumSeq(_)
SumSeq(q) == IF q = <<>> THEN Num(0) ELSE RAdd(q[1], SumSeq(Tail(q)))

\* ------------------------------------------------------------------ tensors
RECURSIVE Numel(_)
Numel(shape) == IF shape = <<>> THEN 1 ELSE shape[1] * Numel(Tail(shape))

Tensor(shape, data) == [shape |-> shape, data |-> data]

Dim(t) == Len(t.shape)

LastSize(t) == t.shape[Len(t.shape)]

Leading(shape) == SubSeq(shape, 1, Len(shape) - 1)

\* Concatenation along the trailing axis: row by row, a's row followed by b's row.
CatLast(a, b) ==
    IF Leading(a.shape) # Leading(b.shape)
    THEN Raise(RuntimeError, "cat: sizes of tensors must match")
    ELSE LET da == LastSize(a)
             db == LastSize(b)
             n == da + db
             rows == Numel(Leading(a.shape))
         IN  Ok(Tensor(Leading(a.shape) \o <<n>>,
                       [k \in 1..(rows * n) |->
                           LET r == (k - 1) \div n
                               c == (k - 1) % n
                           IN  IF c < da THEN a.data[r * da + c + 1]
                                         ELSE b.data[r * db + (c - da) + 1]]))

CatReversed(a, b) == CatLast(b, a)

\* torch.cat([combined_tensor, to_concatenate], dim=-1), line 86.
Cat(a, b) == CatLast(a, b)

\* One of the four operations on two elements.
Apply(operation, u, v) ==
    CASE operation = "*" -> RMul(u, v)
      [] operation = "/" -> RDiv(u, v)
      [] operation = "+" -> RAdd(u, v)
      [] operation = "-" -> RSub(u, v)

\* An elementwise binary operation of two tensors with the same leading axes: equal
\* trailing sizes pair up position by position, a trailing size of 1 is broadcast,
\* anything else is a shape error of the tensor runtime.
Elementwise(operation, a, b) ==
    LET da == LastSize(a)
        db == LastSize(b)
        n == IF da >= db THEN da ELSE db
        rows == Numel(Leading(a.shape))
    IN  IF Leading(a.shape) # Leading(b.shape) \/ (da # db /\ da # 1 /\ db # 1)
        THEN Raise(RuntimeError, "size of tensor a must match size of tensor b")
        ELSE Ok(Tensor(Leading(a.shape) \o <<n>>,
                       [k \in 1..(rows * n) |->
                           LET r == (k - 1) \div n
                               c == (k - 1) % n
                           IN  Apply(operation,
                                     a.data[r * da + (IF da = 1 THEN 0 ELSE c) + 1],
                                     b.data[r * db + (IF db = 1 THEN 0 ELSE c) + 1])]))

\* ------------------------------------------------------------------ value evaluation
\* _get_combination with "len(combination) < 3" for the test of line 95.
_get_combination_lenient(combination, tensor_1, tensor_2) ==
    IF combination = <<"x">> THEN Ok(tensor_1)
    ELSE IF combination = <<"y">> THEN Ok(tensor_2)
    ELSE IF Len(combination) < 3
            \/ combination[1] \notin {"x", "y"} \/ combination[3] \notin {"x", "y"}
         THEN Raise(ConfigurationError, "Invalid combination")
    ELSE LET first_tensor == IF combination[1] = "x" THEN tensor_1 ELSE tensor_2
             second_tensor == IF combination[3] = "x" THEN tensor_1 ELSE tensor_2
             operation == combination[2]
         IN  IF operation = "*" THEN Elementwise("*", first_tensor, second_tensor)
             ELSE IF operation = "/" THEN Elementwise("/", first_tensor, second_tensor)
             ELSE IF operation = "+" THEN Elementwise("+", first_tensor, second_tensor)
             ELSE IF operation = "-" THEN Elementwise("-", first_tensor, second_tensor)
             ELSE Raise(ConfigurationError, "Invalid operation")

\* _get_combination, lines 89-109.
RECURSIVE _get_combination(_, _, _)
_get_combination(combination, tensor_1, tensor_2) ==
    IF combination = <<"x">> THEN Ok(tensor_1)
    ELSE IF combination = <<"y">> THEN Ok(tensor_2)
    ELSE IF Len(combination) # 3
         THEN Raise(ConfigurationError, "Invalid combination")
    ELSE LET first_tensor == _get_combination(<<combination[1]>>, tensor_1, tensor_2)
         IN  IF IsRaise(first_tensor) THEN first_tensor
             ELSE LET second_tensor ==
                          _get_combination(<<combination[3]>>, tensor_1, tensor_2)
                      operation == combination[2]
                  IN  IF IsRaise(second_tensor) THEN second_tensor
                      ELSE IF operation = "*"
                           THEN Elementwise("*", first_tensor.val, second_tensor.val)
                      ELSE IF operation = "/"
                           THEN Elementwise("/", first_tensor.val, second_tensor.val)
                      ELSE IF operation = "+"
                           THEN Elementwise("+", first_tensor.val, second_tensor.val)
                      ELSE IF operation = "-"
                           THEN Elementwise("-", first_tensor.val, second_tensor.val)
                      ELSE Raise(ConfigurationError, "Invalid operation")

\* _combine_tensors, lines 82-87: the first expression, then each further one
\* concatenated to the right of what has been combined so far.
RECURSIVE _combine_tensors_from(_, _, _, _, _)
_combine_tensors_from(combinations, i, combined_tensor, tensor_1, tensor_2) ==
    IF i > Len(combinations) THEN Ok(combined_tensor)
    ELSE LET to_concatenate == _get_combination(combinations[i], tensor_1, tensor_2)
         IN  IF IsRaise(to_concatenate) THEN to_concatenate
             ELSE LET c == Cat(combined_tensor, to_concatenate.val)
                  IN  IF IsRaise(c) THEN c
                      ELSE _combine_tensors_from(combinations, i + 1, c.val,
                                              tensor_1, tensor_2)

_combine_tensors(combinations, tensor_1, tensor_2) ==
    LET combined_tensor == _get_combination(combinations[1], tensor_1, tensor_2)
    IN  IF IsRaise(combined_tensor) THEN combined_tensor
        ELSE _combine_tensors_from(combinations, 2, combined_tensor.val, tensor_1, tensor_2)

\* ------------------------------------------------------------------ tensor runtime used by forward
IntSeqSum(f, n) == LET RECURSIVE S(_)
                       S(i) == IF i = 0 THEN 0 ELSE f[i] + S(i - 1)
                   IN  S(n)

\* Row-major stride of axis i (1-based) in a tensor of the given shape.
Stride(shape, i) == Numel(SubSeq(shape, i + 1, Len(shape)))

\* Zero-based coordinate along axis i of the element at flat position k (1-based).
Coord(shape, i, k) == ((k - 1) \div Stride(shape, i)) % shape[i]

\* tensor.view(*view_args), at most one argument being -1 (inferred).
View(t, view_args) ==
    LET known == Numel([i \in 1..Len(view_args) |->
                           IF view_args[i] = -1 THEN 1 ELSE view_args[i]])
        shape == [i \in 1..Len(view_args) |->
                     IF view_args[i] = -1 THEN Len(t.data) \div known ELSE view_args[i]]
    IN  IF Numel(shape) # Len(t.data)
        THEN Raise(RuntimeError, "view: shape is invalid for input size")
        ELSE Ok(Tensor(shape, t.data))

\* tensor.unsqueeze(dim): a new axis of size 1 at zero-based position dim.
Unsqueeze(t, dim) ==
    Tensor(SubSeq(t.shape, 1, dim) \o <<1>> \o SubSeq(t.shape, dim + 1, Len(t.shape)),
           t.data)

\* tensor.expand(*sizes): axes of size 1 are repeated, new axes are added in front.
Expand(t, sizes) ==
    LET pad == Len(sizes) - Dim(t)
        src == [i \in 1..Len(sizes) |-> IF i <= pad THEN 1 ELSE t.shape[i - pad]]
    IN  IF pad < 0 \/ \E i \in 1..Len(sizes) : src[i] # 1 /\ src[i] # sizes[i]
        THEN Raise(RuntimeError, "expand: sizes do not match")
        ELSE Ok(Tensor(sizes,
                [k \in 1..Numel(sizes) |->
                    t.data[1 + IntSeqSum([i \in 1..Len(sizes) |->
                                             IF src[i] = 1 THEN 0
                                             ELSE Coord(sizes, i, k) * Stride(src, i)],
                                         Len(sizes))]]))

\* combined_tensors @ self._weight_vector for a matrix and a vector (line 69).
MatMul(t, w) ==
    LET rows == Numel(Leading(t.shape))
        d == LastSize(t)
    IN  IF Dim(w) # 1 \/ d # w.shape[1]
        THEN Raise(RuntimeError, "matmul: size mismatch")
        ELSE Ok(Tensor(Leading(t.shape),
                [r \in 1..rows |->
                    SumSeq([k \in 1..d |-> RMul(t.data[(r - 1) * d + k], w.data[k])])]))

\* a.bmm(b) for a of shape (n, l, d) and b of shape (n, d, p) (line 77).
Bmm(a, b) ==
    IF Dim(a) # 3 \/ Dim(b) # 3 \/ a.shape[1] # b.shape[1] \/ a.shape[3] # b.shape[2]
    THEN Raise(RuntimeError, "bmm: size mismatch")
    ELSE LET n == a.shape[1]
             l == a.shape[2]
             d == a.shape[3]
             p == b.shape[3]
         IN  Ok(Tensor(<<n, l, p>>,
                [k \in 1..(n * l * p) |->
                    LET bn == (k - 1) \div (l * p)
                        bl == ((k - 1) \div p) % l
                        bp == (k - 1) % p
                    IN  SumSeq([j \in 1..d |->
                                   RMul(a.data[(bn * l + bl) * d + j],
                                        b.data[(bn * d + (j - 1)) * p + bp + 1])])]))

\* tensor.squeeze(dim=-1): the trailing axis is dropped when its size is 1.
SqueezeLast(t) ==
    IF Dim(t) >= 1 /\ LastSize(t) = 1
    THEN Tensor(Leading(t.shape), t.data)
    ELSE t

Relu(v) == IF v[1] < 0 THEN Num(0) ELSE v

\* self._activation(tensor): an elementwise function, the identity by default.
Activation(activation, t) ==
    IF activation = "relu"
    THEN Tensor(t.shape, [k \in 1..Len(t.data) |-> Relu(t.data[k])])
    ELSE t

\* ------------------------------------------------------------------ forward
\* Lines 68-79: the dot product of every combined vector with the weight vector.
DotProduct(obj, combined) ==
    IF Dim(combined) <= 2
    THEN MatMul(combined, obj._weight_vector)
    ELSE LET size == combined.shape
             view_args == <<-1>> \o SubSeq(size, Len(size) - 1, Len(size))
             reshaped_tensor == View(combined, view_args)
             unsqueezed_weight == Unsqueeze(Unsqueeze(obj._weight_vector, 1), 0)
         IN  IF IsRaise(reshaped_tensor) THEN reshaped_tensor
             ELSE LET reshaped_weight ==
                          Expand(unsqueezed_weight,
                                 <<reshaped_tensor.val.shape[1],
                                   obj._weight_vector.shape[1], 1>>)
                  IN  IF IsRaise(reshaped_weight) THEN reshaped_weight
                      ELSE LET reshaped_dot_product ==
                                   Bmm(reshaped_tensor.val, reshaped_weight.val)
                           IN  IF IsRaise(reshaped_dot_product) THEN reshaped_dot_product
                               ELSE View(reshaped_dot_product.val, Leading(size))

\* Line 80: bias added, activation applied, trailing axis squeezed.
Finish(obj, dot_product) ==
    LET bias == Expand(obj._bias, dot_product.shape)
    IN  IF IsRaise(bias) THEN bias
        ELSE LET sum == Elementwise("+", dot_product, bias.val)
             IN  IF IsRaise(sum) THEN sum
                 ELSE Ok(SqueezeLast(Activation(obj._activation, sum.val)))

\* forward, lines 59-80: combined is the local combined_tensors of line 60, result
\* what the call returns or raises.
forward(obj, tensor_1, tensor_2) ==
    LET combined == _combine_tensors(obj._combinations, tensor_1, tensor_2)
    IN  IF IsRaise(combined) THEN [combined |-> Nil, result |-> combined]
        ELSE LET dot_product == DotProduct(obj, combined.val)
             IN  [combined |-> combined.val,
                  result |-> IF IsRaise(dot_product) THEN dot_product
                             ELSE Finish(obj, dot_product.val)]

\* ------------------------------------------------------------------ construction
\* torch.Tensor(n) allocates without initialising: the contents are whatever the
\* memory held.  Two memory images stand for that choice.
MemoryImages == {1, 2}

Uninitialized(n, image) == Tensor(<<n>>, [k \in 1..n |-> Num(k - image)])

Activations == {"identity", "relu"}

\* __init__, lines 46-56.
__init__(tensor_1_dim, tensor_2_dim, combination, activation, image) ==
    LET _combinations == Split(combination)
        combined_dim == _get_combined_dim(_combinations, tensor_1_dim, tensor_2_dim)
    IN  IF IsRaise(combined_dim) THEN combined_dim
        ELSE Ok([_combinations |-> _combinations,
                 _weight_vector |-> Uninitialized(combined_dim.val, image),
                 _bias |-> Uninitialized(1, image),
                 _activation |-> activation])

\* Params.pop(key): the value, and the key is gone from the Params object.
ParamsPop(p, key) == [value |-> p[key], rest |-> [k \in DOMAIN p \ {key} |-> p[k]]]

\* Params.pop(key, default).
ParamsPopDefault(p, key, default) ==
    IF key \in DOMAIN p THEN ParamsPop(p, key) ELSE [value |-> default, rest |-> p]

\* Params.assert_empty(class_name): fails when a key is left.
AssertEmpty(p) ==
    IF DOMAIN p # {} THEN Raise(ConfigurationError, "Extra parameters") ELSE Ok(TRUE)

\* from_params with the check for left-over keys made after the object is built.
from_params_late_check(p, image) ==
    LET p1 == ParamsPop(p, "tensor_1_dim")
        p2 == ParamsPop(p1.rest, "tensor_2_dim")
        p3 == ParamsPopDefault(p2.rest, "combination", <<"x", ",", "y">>)
        built == __init__(p1.value, p2.value, p3.value, "identity", image)
    IN  [rest |-> p3.rest,
         args |-> [tensor_1_dim |-> p1.value, tensor_2_dim |-> p2.value,
                   combination |-> p3.value, activation |-> "identity"],
         reached_init |-> TRUE,
         result |-> IF IsRaise(built) THEN built
                    ELSE IF IsRaise(AssertEmpty(p3.rest)) THEN AssertEmpty(p3.rest)
                    ELSE built]

\* from_params, lines 131-142.  result is what the call does, rest the Params object
\* as the call leaves it, reached_init whether line 139 was reached.
from_params(p, image) ==
    LET p1 == ParamsPop(p, "tensor_1_dim")
        p2 == ParamsPop(p1.rest, "tensor_2_dim")
        p3 == ParamsPopDefault(p2.rest, "combination", <<"x", ",", "y">>)
        activation == "identity"
        empty == AssertEmpty(p3.rest)
    IN  [rest |-> p3.rest,
         args |-> [tensor_1_dim |-> p1.value, tensor_2_dim |-> p2.value,
                   combination |-> p3.value, activation |-> activation],
         reached_init |-> ~IsRaise(empty),
         result |-> IF IsRaise(empty) THEN empty
                    ELSE __init__(p1.value, p2.value, p3.value, activation, image)]

\* ------------------------------------------------------------------ inputs
\* The expressions the class documents (lines 19-20), and tokens that are none of them.
Expressions ==
    { <<"x">>, <<"y">>, <<"x", "*", "y">>, <<"x", "/", "y">>, <<"x", "+", "y">>,
      <<"x", "-", "y">>, <<"y", "/", "x">>, <<"y", "-", "x">>, <<"x", "*", "x">> }

Malformed ==
    { <<>>, <<"z">>, <<"x", "y">>, <<"z", "*", "y">>, <<"x", "*", "z">>,
      <<"x", "*", "y", "y">>, <<"x", "%", "y">> }

\* Tokens of the combination strings the evaluators are applied to.
Tokens == Expressions \cup Malformed

\* Tokens of the combination strings objects are constructed from.
ObjectTokens ==
    { <<"x">>, <<"y">>, <<"x", "*", "y">>, <<"x", "/", "y">>, <<"x", "+", "y">>,
      <<"x", "-", "y">>, <<"x", "%", "y">>, <<"z">>, <<>> }

RECURSIVE Join(_)
Join(tokens) ==
    IF Len(tokens) = 1 THEN tokens[1]
    ELSE tokens[1] \o <<",">> \o Join(Tail(tokens))

TokenLists(pool) == UNION { [1..n -> pool] : n \in 1..MaxTokens }

Dims == 1..MaxDim

LeadingShapes == UNION { [1..n -> 1..MaxBatch] : n \in 1..2 }

\* The input tensors: non-zero elements that differ along a row and from row to
\* row; tensor_1 cycles through 3, 4, 5, 6, 2 and tensor_2 through 1, 2, 4, 8.
Input1(shape) == Tensor(shape, [k \in 1..Numel(shape) |-> Num((k % 5) + 2)])

Input2(shape) ==
    Tensor(shape, [k \in 1..Numel(shape) |-> Num(<<1, 2, 4, 8>>[((k - 1) % 4) + 1])])

\* The Params object with the two dimensions, the combination string of the
\* expressions c unless c is empty (no "combination" key), and the keys of extra.
ParamsObject(d1, d2, c, extra) ==
    ("tensor_1_dim" :> d1) @@ ("tensor_2_dim" :> d2)
        @@ (IF c = <<>> THEN <<>> ELSE ("combination" :> Join(c)))
        @@ [k \in extra |-> "relu"]

ExtraKeys == { {}, {"activation"} }

\* ------------------------------------------------------------------ the object's life
Init ==
    /\ self = Nil
    /\ init_args = Nil
    /\ call = [op |-> "none"]
    /\ outcome = Nil
    /\ combined_tensors = Nil
    /\ params = Nil

\* LinearSimilarity(tensor_1_dim, tensor_2_dim, combination, activation).
\* init_args.expressions records the expressions the caller wrote into the string.
New ==
    /\ call.op = "none"
    /\ \E d1 \in Dims, d2 \in Dims, ts \in TokenLists(ObjectTokens), a \in Activations,
          image \in MemoryImages :
          LET r == __init__(d1, d2, Join(ts), a, image)
          IN  /\ call' = [op |-> "__init__"]
              /\ init_args' = [tensor_1_dim |-> d1, tensor_2_dim |-> d2,
                               combination |-> Join(ts), activation |-> a,
                               expressions |-> ts]
              /\ outcome' = IF IsRaise(r) THEN r ELSE Ok("object")
              /\ self' = IF IsRaise(r) THEN Nil ELSE r.val
    /\ UNCHANGED <<combined_tensors, params>>

\* LinearSimilarity.from_params(params).  init_args stays Nil when __init__ is not
\* reached.
NewFromParams ==
    /\ call.op = "none"
    /\ \E d1 \in Dims, d2 \in Dims, c \in {<<>>} \cup TokenLists(ObjectTokens),
          extra \in ExtraKeys, image \in MemoryImages :
          LET p == ParamsObject(d1, d2, c, extra)
              r == from_params(p, image)
          IN  /\ call' = [op |-> "from_params", params |-> p]
              /\ params' = r.rest
              /\ init_args' =
                     IF r.reached_init
                     THEN [tensor_1_dim |-> r.args.tensor_1_dim,
                           tensor_2_dim |-> r.args.tensor_2_dim,
                           combination |-> r.args.combination,
                           activation |-> r.args.activation,
                           expressions |-> IF c = <<>> THEN <<<<"x">>, <<"y">>>> ELSE c]
                     ELSE Nil
              /\ outcome' = IF IsRaise(r.result) THEN r.result ELSE Ok("object")
              /\ self' = IF IsRaise(r.result) THEN Nil ELSE r.result.val
    /\ UNCHANGED combined_tensors

\* self(tensor_1, tensor_2), on a constructed object and inputs with the same leading
\* axes and the trailing sizes the object was built for.  forward leaves the object
\* as it is, so a later call behaves as this one does.
CallForward ==
    /\ call.op \in {"__init__", "from_params"}
    /\ self # Nil
    /\ \E lead \in LeadingShapes :
          LET tensor_1 == Input1(lead \o <<init_args.tensor_1_dim>>)
              tensor_2 == Input2(lead \o <<init_args.tensor_2_dim>>)
              f == forward(self, tensor_1, tensor_2)
          IN  /\ call' = [op |-> "forward", tensor_1 |-> tensor_1, tensor_2 |-> tensor_2]
              /\ combined_tensors' = f.combined
              /\ outcome' = f.result
    /\ UNCHANGED <<self, init_args, params>>

Next == New \/ NewFromParams \/ CallForward

Spec == Init /\ [][Next]_vars

\* ------------------------------------------------------------------ the two evaluators
\* The object as __init__ has it between line 52 and line 53: _combinations is set,
\* and the evaluators are applied to it.
InitEval ==
    /\ \E d1 \in Dims, d2 \in Dims, ts \in TokenLists(Tokens) :
          /\ self = [_combinations |-> Split(Join(ts))]
          /\ init_args = [tensor_1_dim |-> d1, tensor_2_dim |-> d2,
                          combination |-> Join(ts), expressions |-> ts]
    /\ call = [op |-> "none"]
    /\ outcome = Nil
    /\ combined_tensors = Nil
    /\ params = Nil

EvalLeading == { <<>> } \cup { <<b>> : b \in 1..MaxBatch }

\* self._get_combined_dim(tensor_1_dim, tensor_2_dim)
CallGetCombinedDim ==
    /\ call.op = "none"
    /\ call' = [op |-> "_get_combined_dim"]
    /\ outcome' = _get_combined_dim(self._combinations,
                                 init_args.tensor_1_dim, init_args.tensor_2_dim)
    /\ UNCHANGED <<self, init_args, combined_tensors, params>>

\* self._combine_tensors(tensor_1, tensor_2)
CallCombineTensors ==
    /\ call.op = "none"
    /\ \E lead \in EvalLeading :
          LET tensor_1 == Input1(lead \o <<init_args.tensor_1_dim>>)
              tensor_2 == Input2(lead \o <<init_args.tensor_2_dim>>)
          IN  /\ call' = [op |-> "_combine_tensors",
                          tensor_1 |-> tensor_1, tensor_2 |-> tensor_2]
              /\ outcome' = _combine_tensors(self._combinations, tensor_1, tensor_2)
    /\ UNCHANGED <<self, init_args, combined_tensors, params>>

NextEval == CallGetCombinedDim \/ CallCombineTensors

SpecEval == InitEval /\ [][NextEval]_vars

\* ------------------------------------------------------------------ what the claims speak of
\* The expressions the caller wrote, and the two dimensions.
Written == init_args.expressions

DimX == init_args.tensor_1_dim

DimY == init_args.tensor_2_dim

IsOperand(c) == c \in {"x", "y"}

IsOperator(c) == c \in {"*", "/", "+", "-"}

OperandDim(c) == IF c = "x" THEN DimX ELSE DimY

\* <operand><any character><operand>
IsBinary(e) == Len(e) = 3 /\ IsOperand(e[1]) /\ IsOperand(e[3])

\* 'x', 'y', or <operand><op><operand> with operands of equal dimension.
IsValid(e) ==
    \/ e \in {<<"x">>, <<"y">>}
    \/ IsBinary(e) /\ IsOperator(e[2]) /\ OperandDim(e[1]) = OperandDim(e[3])

\* Not 'x', not 'y', and not <operand><any character><operand>.
IsUnknown(e) == e \notin {<<"x">>, <<"y">>} /\ ~IsBinary(e)

ExpressionDim(e) == OperandDim(e[1])

RECURSIVE SumOfDims(_)
SumOfDims(es) == IF es = <<>> THEN 0 ELSE ExpressionDim(es[1]) + SumOfDims(Tail(es))

\* The r-th vector (1-based) of a tensor, as a sequence.
Row(t, r) == [k \in 1..LastSize(t) |-> t.data[(r - 1) * LastSize(t) + k]]

Pairs(t) == Numel(Leading(t.shape))

\* The value of one valid expression on one pair of vectors.
TermOf(e, x, y) ==
    IF e = <<"x">> THEN x
    ELSE IF e = <<"y">> THEN y
    ELSE LET a == IF e[1] = "x" THEN x ELSE y
             b == IF e[3] = "x" THEN x ELSE y
         IN  [k \in 1..Len(a) |->
                 CASE e[2] = "*" -> RMul(a[k], b[k])
                   [] e[2] = "/" -> RDiv(a[k], b[k])
                   [] e[2] = "+" -> RAdd(a[k], b[k])
                   [] e[2] = "-" -> RSub(a[k], b[k])]

RECURSIVE Concatenation(_, _, _)
Concatenation(es, x, y) ==
    IF es = <<>> THEN <<>> ELSE TermOf(es[1], x, y) \o Concatenation(Tail(es), x, y)

\* activation(w . c + b) for one combined vector c.
Score(obj, c) ==
    LET dot == SumSeq([k \in 1..Len(c) |-> RMul(obj._weight_vector.data[k], c[k])])
        sum == RAdd(dot, obj._bias.data[1])
    IN  IF obj._activation = "relu" THEN Relu(sum) ELSE sum

\* ------------------------------------------------------------------ C1
\* C1: for every constructed object and every pair of inputs with the same leading
\* axes and trailing sizes tensor_1_dim and tensor_2_dim, forward returns, for each
\* pair of vectors, activation(w . c + b) with c the concatenation of the listed
\* combinations of the pair, in the matmul branch and in the bmm branch alike.
C1_ForwardYieldsScores ==
    call.op = "forward" =>
        /\ outcome.kind = "return"
        /\ Len(outcome.val.data) = Pairs(call.tensor_1)
        /\ \A r \in 1..Pairs(call.tensor_1) :
              outcome.val.data[r] =
                  Score(self, Concatenation(Written, Row(call.tensor_1, r),
                                            Row(call.tensor_2, r)))

\* C1, on the objects built from the documented expressions only: every forward
\* returns the scores.  ('x%y' is what forward raises on, see C5.)
C1_ScoresOfDocumentedExpressions ==
    (call.op = "forward" /\ \A i \in 1..Len(Written) : IsValid(Written[i])) =>
        /\ outcome.kind = "return"
        /\ Len(outcome.val.data) = Pairs(call.tensor_1)
        /\ \A r \in 1..Pairs(call.tensor_1) :
              outcome.val.data[r] =
                  Score(self, Concatenation(Written, Row(call.tensor_1, r),
                                            Row(call.tensor_2, r)))

\* ------------------------------------------------------------------ C2
\* C2: for every list of valid expressions and all dimensions, _get_combined_dim
\* returns the sum of the per-expression dimensions ('x' is dim_x, 'y' is dim_y, a
\* binary expression the common dimension of its operands).
C2_CombinedDimIsSum ==
    (call.op = "_get_combined_dim" /\ \A i \in 1..Len(Written) : IsValid(Written[i])) =>
        outcome = Ok(SumOfDims(Written))

C2_Witness ==
    /\ call.op = "_get_combined_dim"
    /\ Written = << <<"x">>, <<"x", "*", "y">> >>
    /\ DimX = 2 /\ DimY = 2
    /\ outcome = Ok(4)

\* ------------------------------------------------------------------ C3
\* C3: for every list of valid expressions, _combine_tensors returns, for every pair
\* of vectors, the per-expression values concatenated in the order of the tokens of
\* the combination string.
C3_ConcatenationInTokenOrder ==
    (call.op = "_combine_tensors" /\ \A i \in 1..Len(Written) : IsValid(Written[i])) =>
        /\ outcome.kind = "return"
        /\ outcome.val.shape = Leading(call.tensor_1.shape) \o <<SumOfDims(Written)>>
        /\ \A r \in 1..Pairs(call.tensor_1) :
              Row(outcome.val, r) =
                  Concatenation(Written, Row(call.tensor_1, r), Row(call.tensor_2, r))

C3_Witness ==
    /\ call.op = "_combine_tensors"
    /\ Written = << <<"y">>, <<"x">> >>
    /\ DimX = 1 /\ DimY = 2
    /\ call.tensor_1.shape = <<2, 1>>
    /\ outcome.kind = "return"
    /\ outcome.val.data = <<Num(1), Num(2), Num(3), Num(4), Num(8), Num(4)>>

\* ------------------------------------------------------------------ C4
\* C4: constructing with a combination list that holds a binary expression whose two
\* operands have different dimensions raises ConfigurationError and yields no object;
\* a binary expression whose operands have the same dimension d resolves to d.
C4_OperandDimensionsMustMatch ==
    (call.op \in {"__init__", "from_params"} /\ init_args # Nil) =>
        /\ (\E i \in 1..Len(Written) :
               IsBinary(Written[i]) /\ OperandDim(Written[i][1]) # OperandDim(Written[i][3]))
           => (Raises(outcome, ConfigurationError) /\ self = Nil)
        /\ (Len(Written) = 1 /\ IsValid(Written[1]))
           => (outcome = Ok("object") /\ self # Nil
               /\ self._weight_vector.shape = <<OperandDim(Written[1][1])>>)

C4_Witness ==
    /\ call.op = "__init__"
    /\ Written = << <<"x">>, <<"x", "*", "y">> >>
    /\ DimX # DimY
    /\ Raises(outcome, ConfigurationError)
    /\ outcome.msg = "Tensor dims must match"
    /\ self = Nil

\* ------------------------------------------------------------------ C5
\* C5: a 3-character expression with valid operands and an operator character that
\* is none of '*', '/', '+', '-' raises ConfigurationError in the dimension
\* evaluation and in the value evaluation, for all dimensions.
C5_UnknownOperatorRejected ==
    (\E i \in 1..Len(Written) : IsBinary(Written[i]) /\ ~IsOperator(Written[i][2])) =>
        /\ call.op = "_get_combined_dim" => Raises(outcome, ConfigurationError)
        /\ call.op = "_combine_tensors" => Raises(outcome, ConfigurationError)

\* ------------------------------------------------------------------ C6
\* The tensor runtime refuses the expression e: a binary operation on operands whose
\* lengths differ, neither being 1.
ShapeError(e) ==
    /\ IsBinary(e) /\ IsOperator(e[2])
    /\ OperandDim(e[1]) # OperandDim(e[3])
    /\ OperandDim(e[1]) # 1 /\ OperandDim(e[3]) # 1

C7_ForwardNeverRaisesConfigurationError ==
    call.op = "forward" => ~Raises(outcome, ConfigurationError)

\* ------------------------------------------------------------------ C8
\* C8: for every constructed object and every pair of inputs of the trailing sizes it
\* was built for, _combine_tensors produces a tensor whose trailing length is the
\* length of the weight vector, the sum of the per-expression dimensions in order.
C8_CombinedLengthIsWeightLength ==
    call.op = "forward" =>
        /\ combined_tensors # Nil
        /\ LastSize(combined_tensors) = self._weight_vector.shape[1]
        /\ LastSize(combined_tensors) = SumOfDims(Written)

\* C8, on the objects built from the documented expressions only: the combined
\* tensor is as long as the weight vector.  ('x%y' has a dimension and no value, see C5.)
C8_LengthsOfDocumentedExpressions ==
    (call.op = "forward" /\ \A i \in 1..Len(Written) : IsValid(Written[i])) =>
        /\ combined_tensors # Nil
        /\ LastSize(combined_tensors) = self._weight_vector.shape[1]
        /\ LastSize(combined_tensors) = SumOfDims(Written)

\* ------------------------------------------------------------------ C9
\* C9: from_params takes exactly the keys tensor_1_dim, tensor_2_dim and combination
\* (default 'x,y') out of the Params object and builds what the constructor builds
\* from them with the identity activation; a key that is left makes it fail with no
\* object built, before the combination string is looked at.
C9_FromParams ==
    call.op = "from_params" =>
        LET p == call.params
            extra == DOMAIN p \ {"tensor_1_dim", "tensor_2_dim", "combination"}
            combination == IF "combination" \in DOMAIN p THEN p["combination"]
                           ELSE <<"x", ",", "y">>
        IN  /\ params = [k \in extra |-> p[k]]
            /\ extra # {} =>
                  /\ outcome = Raise(ConfigurationError, "Extra parameters")
                  /\ self = Nil
            /\ extra = {} =>
                  \E image \in MemoryImages :
                      LET r == __init__(p["tensor_1_dim"], p["tensor_2_dim"],
                                         combination, "identity", image)
                      IN  IF IsRaise(r) THEN outcome = r /\ self = Nil
                          ELSE outcome = Ok("object") /\ self = r.val

C9_Witness ==
    /\ call.op = "from_params"
    /\ DOMAIN call.params = {"tensor_1_dim", "tensor_2_dim", "combination", "activation"}
    /\ call.params["combination"] = <<"z">>
    /\ outcome = Raise(ConfigurationError, "Extra parameters")
    /\ self = Nil
    /\ DOMAIN params = {"activation"}

C10_ResultShapeAfterSqueeze ==
    (call.op = "forward" /\ outcome.kind = "return") =>
        LET lead == Leading(call.tensor_1.shape)
        IN  outcome.val.shape = IF lead[Len(lead)] = 1 THEN Leading(lead) ELSE lead

====
